---- MODULE Spec2Model ----
(***************************************************************************)
(* PyOpenWorm/channelworm.py: PatchClampExperiment, ChannelModelType,      *)
(* ChannelModel, PatchClampChannelModel and HomologyChannelModel.          *)
(*                                                                         *)
(* Strings whose characters matter (the modelType argument, which the code *)
(* lower-cases and compares) are sequences of one-character strings.       *)
(* Attribute names, keyword names and class names are compared only as a   *)
(* whole and are TLA+ strings.                                             *)
(*                                                                         *)
(* DataObject, Experiment and the property layer (DatatypeProperty,        *)
(* ObjectProperty, the accessors' set/get) are not part of channelworm.py; *)
(* they are modelled from the specification (sections 4.1, 4.4 and 6).     *)
(***************************************************************************)
EXTENDS Integers, Sequences, FiniteSets, TLC

\* ------------------------------------------------------------------ bounds
\* How many leading characters of an alias may be upper-cased in an input.
MaxCase == 2
\* How many blanks may surround an alias in an input (each side).
MaxPad == 1
\* How many values a multi-valued attribute receives after construction.
MaxSets == 2

\* ----------------------------------------------------------------- strings
UpperChars == <<"A", "B", "C", "D", "E", "F", "G", "H", "I", "J", "K", "L", "M",
                "N", "O", "P", "Q", "R", "S", "T", "U", "V", "W", "X", "Y", "Z">>

LowerChars == <<"a", "b", "c", "d", "e", "f", "g", "h", "i", "j", "k", "l", "m",
                "n", "o", "p", "q", "r", "s", "t", "u", "v", "w", "x", "y", "z">>

LowerChar(c) ==
  IF \E i \in DOMAIN UpperChars : UpperChars[i] = c
  THEN LowerChars[CHOOSE i \in DOMAIN UpperChars : UpperChars[i] = c]
  ELSE c

UpperChar(c) ==
  IF \E i \in DOMAIN LowerChars : LowerChars[i] = c
  THEN UpperChars[CHOOSE i \in DOMAIN LowerChars : LowerChars[i] = c]
  ELSE c

\* str.lower(): every character lower-cased, nothing else touched.
Lower(s) == [i \in DOMAIN s |-> LowerChar(s[i])]

\* str.strip(): leading and trailing blanks removed.
RECURSIVE StripLeft(_)
StripLeft(s) ==
  IF s # <<>> /\ Head(s) = " " THEN StripLeft(Tail(s)) ELSE s

RECURSIVE StripRight(_)
StripRight(s) ==
  IF s # <<>> /\ s[Len(s)] = " " THEN StripRight(SubSeq(s, 1, Len(s) - 1)) ELSE s

Strip(s) == StripRight(StripLeft(s))

Range(s) == {s[i] : i \in DOMAIN s}

NoDuplicates(s) == \A i, j \in DOMAIN s : s[i] = s[j] => i = j

\* ------------------------------------------------------- ChannelModelType
patchClamp ==
  <<"P", "a", "t", "c", "h", " ", "c", "l", "a", "m", "p", " ",
    "e", "x", "p", "e", "r", "i", "m", "e", "n", "t">>

homologyEstimate ==
  <<"E", "s", "t", "i", "m", "a", "t", "i", "o", "n", " ", "b", "a", "s", "e", "d",
    " ", "o", "n", " ", "h", "o", "m", "o", "l", "o", "g", "y">>

\* The alias literals of ChannelModel.__init__.
AliasHomology == <<"h", "o", "m", "o", "l", "o", "g", "y">>

AliasPatchClamp == <<"p", "a", "t", "c", "h", "-", "c", "l", "a", "m", "p">>

\* ------------------------------------------------------------------ classes
DataObject == "DataObject"

Experiment == "Experiment"

PatchClampExperiment == "PatchClampExperiment"

ChannelModel == "ChannelModel"

PatchClampChannelModel == "PatchClampChannelModel"

HomologyChannelModel == "HomologyChannelModel"

Classes ==
  {DataObject, Experiment, PatchClampExperiment, ChannelModel,
   PatchClampChannelModel, HomologyChannelModel}

ChannelModelClasses == {ChannelModel, PatchClampChannelModel, HomologyChannelModel}

Specializations == {PatchClampChannelModel, HomologyChannelModel}

\* The class statements' bases, most-derived first; DataObject is the root.
Bases(c) ==
  CASE c = PatchClampExperiment -> <<Experiment, DataObject>>
    [] c = Experiment -> <<DataObject>>
    [] c = ChannelModel -> <<DataObject>>
    [] c = PatchClampChannelModel -> <<ChannelModel, DataObject>>
    [] c = HomologyChannelModel -> <<ChannelModel, DataObject>>
    [] OTHER -> <<>>

\* PatchClampExperiment.conditions
conditions ==
  <<"Ca_concentration", "Cl_concentration", "blockers", "cell", "cell_age",
    "delta_t", "duration", "end_time", "extra_solution", "initial_voltage",
    "ion_channel", "membrane_capacitance", "mutants", "patch_type",
    "pipette_solution", "protocol_end", "protocol_start", "protocol_step",
    "start_time", "temperature", "type">>

\* -------------------------------------------------------------- inputs
\* Keyword names a caller passes to PatchClampExperiment: four of the
\* conditions (the first and the last of the list among them), a name the
\* base constructor recognises and a name nobody recognises.
KwargKeys == {"Ca_concentration", "cell", "temperature", "type", "ident", "foo"}

KwargValues == {1, 20}

\* Keyword names a caller passes to the channel-model classes.
ModelKwargKeys == {"modelType", "ident", "foo"}

\* What a modelType parameter holds: a string, or the default False.
StrArg(s) == [isStr |-> TRUE, s |-> s]

NoArg == [isStr |-> FALSE, s |-> <<>>]

UnknownValue == <<"u", "n", "k", "n", "o", "w", "n", "-", "v", "a", "l", "u", "e">>

\* The spellings of s with any of its first MaxCase characters upper-cased.
CaseVariants(s) ==
  {[i \in DOMAIN s |-> IF i \in U THEN UpperChar(s[i]) ELSE s[i]] :
     U \in SUBSET (DOMAIN s \cap 1..MaxCase)}

Blanks(n) == [i \in 1..n |-> " "]

Padded(s) == {Blanks(l) \o s \o Blanks(r) : l \in 0..MaxPad, r \in 0..MaxPad}

ModelTypeStrings ==
  UNION {Padded(t) : t \in CaseVariants(AliasHomology) \cup CaseVariants(AliasPatchClamp)}
  \cup {patchClamp, homologyEstimate, Lower(patchClamp), Lower(homologyEstimate),
        UnknownValue, <<>>}

ModelTypeInputs == {NoArg} \cup {StrArg(s) : s \in ModelTypeStrings}

\* The modelType values a caller puts among a specialization's keywords.
CallerModelTypes == {AliasHomology, AliasPatchClamp, UnknownValue}

\* ------------------------------------------------------------------- state
VARIABLES
  registry,   \* the schema registry: class -> the names declared through it, in order
  pc,         \* where the constructor under way stands
  call,       \* the arguments of the constructor call under way (or last made)
  conds,      \* PatchClampExperiment.__init__'s local `conditions`
  fwd,        \* PatchClampExperiment.__init__'s local `kwargs` after line 84
  baseArgs,   \* what the base constructor was called with: <<>> until it is called
  inst,       \* the instance under construction (or last constructed)
  err         \* the exception the constructor raised, "none" when it has not

vars == <<registry, pc, call, conds, fwd, baseArgs, inst, err>>

\* --------------------------------------------------------- property layer
\* The names the base constructor takes itself (identity handling).
BaseRecognised == {"ident"}

\* The base constructor raises on keywords it does not recognise.
BaseAccepts(kwargs) == DOMAIN kwargs \subseteq BaseRecognised

\* resolve_schema: the declarations of the ancestors, most-base first, then the class's own.
RECURSIVE AncestorSchema(_, _)
AncestorSchema(reg, bases) ==
  IF bases = <<>> THEN <<>>
  ELSE AncestorSchema(reg, Tail(bases)) \o reg[Head(bases)]

InheritedSchema(reg, c) == AncestorSchema(reg, Bases(c)) \o reg[c]

NewInstance(c) == [cls |-> c, props |-> <<>>]

Decl(name, multiple, kind) == [name |-> name, multiple |-> multiple, kind |-> kind]

\* Cls.DatatypeProperty(name, owner) / Cls.ObjectProperty(...): declare.
\* The owner is the instance. A name an ancestor class declared, or one the
\* owner already carries, is a SchemaConflict. A name the class itself declared
\* at an earlier construction is attached to the new owner (section 4.4, step 3:
\* declare is invoked once per schema attribute at every construction), and the
\* class's entry in the registry, an ordered set, keeps its single occurrence.
Declare(reg, obj, c, d) ==
  IF d.name \in Range(AncestorSchema(reg, Bases(c))) \/ d.name \in DOMAIN obj.props
  THEN [ok |-> FALSE, reg |-> reg, obj |-> obj]
  ELSE [ok |-> TRUE,
        reg |-> IF d.name \in Range(reg[c]) THEN reg
                ELSE [reg EXCEPT ![c] = Append(@, d.name)],
        obj |-> [obj EXCEPT !.props =
                   [n \in DOMAIN obj.props \cup {d.name} |->
                      IF n = d.name
                      THEN [multiple |-> d.multiple, kind |-> d.kind, vals |-> <<>>]
                      ELSE obj.props[n]]]]

\* A run of declare calls, in order; the first conflict raises and ends it.
RECURSIVE DeclareAll(_, _, _, _)
DeclareAll(reg, obj, c, decls) ==
  IF decls = <<>> THEN [ok |-> TRUE, reg |-> reg, obj |-> obj]
  ELSE LET r == Declare(reg, obj, c, Head(decls))
       IN IF r.ok THEN DeclareAll(r.reg, r.obj, c, Tail(decls)) ELSE r

\* The accessor called with a value: a multiple-valued attribute adds it, a
\* single-valued one holds it in place of what it held.
SetValue(obj, name, v) ==
  [obj EXCEPT !.props[name].vals =
     IF obj.props[name].multiple THEN Append(@, v) ELSE <<v>>]

\* The accessor called with no argument: the values held, in the order set.
GetValues(obj, name) == obj.props[name].vals

Populated(obj) == {n \in DOMAIN obj.props : obj.props[n].vals # <<>>}

\* ------------------------------------------------- PatchClampExperiment
\* yarom.utils.slice_dict(d, s): the items of d whose key is in s.
slice_dict(d, s) == [k \in DOMAIN d \cap Range(s) |-> d[k]]

\* Line 84: the keywords that stay for the base constructor.
ForwardAllKwargs(kwargs, cs) == kwargs

ForwardedKwargs(kwargs, cs) == [k \in DOMAIN kwargs \ DOMAIN cs |-> kwargs[k]]

\* Lines 89-90, declaring only the conditions the caller supplied.
SuppliedConditionDecls ==
  SelectSeq([i \in DOMAIN conditions |-> Decl(conditions[i], FALSE, "datatype")],
            LAMBDA d : d.name \in DOMAIN conds)

\* Lines 89-90: one single-valued datatype property per entry of `conditions`.
ConditionDecls == [i \in DOMAIN conditions |-> Decl(conditions[i], FALSE, "datatype")]

\* Lines 92-93: each supplied condition's value set through its accessor.
RECURSIVE SetAll(_, _, _)
SetAll(obj, d, keys) ==
  IF keys = {} THEN obj
  ELSE LET k == CHOOSE x \in keys : TRUE
       IN SetAll(SetValue(obj, k, d[k]), d, keys \ {k})

Kwargs(keys, values) == UNION {[S -> values] : S \in SUBSET keys}

NoCall == [cls |-> "none", reference |-> FALSE, kwargs |-> <<>>, modelType |-> NoArg]

\* A constructor is called; one construction runs at a time (single-threaded).
NewCall(c, reference, kwargs, modelType) ==
  /\ pc = "Idle"
  /\ call' = [cls |-> c, reference |-> reference, kwargs |-> kwargs,
              modelType |-> modelType]
  /\ inst' = NewInstance(c)
  /\ pc' = "Uninitialized"
  /\ conds' = <<>>
  /\ fwd' = <<>>
  /\ baseArgs' = <<>>
  /\ err' = "none"
  /\ UNCHANGED registry

Raise(e) ==
  /\ pc' = "Failed"
  /\ err' = e

\* PatchClampExperiment(reference, **kwargs) is called.
NewPatchClampExperiment ==
  /\ pc = "Idle"
  /\ \E reference \in BOOLEAN, kwargs \in Kwargs(KwargKeys, KwargValues) :
       NewCall(PatchClampExperiment, reference, kwargs, NoArg)

\* Lines 83-84.
PCEPartition ==
  /\ pc = "Uninitialized"
  /\ call.cls = PatchClampExperiment
  /\ conds' = slice_dict(call.kwargs, conditions)
  /\ fwd' = ForwardedKwargs(call.kwargs, slice_dict(call.kwargs, conditions))
  /\ pc' = "Partitioning"
  /\ UNCHANGED <<registry, call, baseArgs, inst, err>>

\* Line 85.
PCEBaseInit ==
  /\ pc = "Partitioning"
  /\ call.cls = PatchClampExperiment
  /\ baseArgs' = <<[args |-> <<call.reference>>, kwargs |-> fwd]>>
  /\ IF BaseAccepts(fwd)
     THEN pc' = "BaseInitialized" /\ UNCHANGED err
     ELSE Raise("UnrecognizedArgument")
  /\ UNCHANGED <<registry, call, conds, fwd, inst>>

\* Lines 89-90.
PCEDeclare ==
  /\ pc = "BaseInitialized"
  /\ call.cls = PatchClampExperiment
  /\ LET r == DeclareAll(registry, inst, PatchClampExperiment, ConditionDecls)
     IN /\ registry' = r.reg
        /\ inst' = r.obj
        /\ IF r.ok THEN pc' = "Declared" /\ UNCHANGED err
           ELSE Raise("SchemaConflict")
  /\ UNCHANGED <<call, conds, fwd, baseArgs>>

\* Lines 92-93, before the base constructor has been called.
PCEPopulateEarly ==
  /\ pc = "Partitioning"
  /\ call.cls = PatchClampExperiment
  /\ LET r == DeclareAll(registry, inst, PatchClampExperiment, ConditionDecls)
     IN /\ registry' = r.reg
        /\ inst' = SetAll(r.obj, conds, DOMAIN conds)
  /\ pc' = "Populated"
  /\ UNCHANGED <<call, conds, fwd, baseArgs, err>>

\* Lines 92-93.
PCEPopulate ==
  /\ pc = "Declared"
  /\ call.cls = PatchClampExperiment
  /\ inst' = SetAll(inst, conds, DOMAIN conds)
  /\ pc' = "Populated"
  /\ UNCHANGED <<registry, call, conds, fwd, baseArgs, err>>

\* __init__ returns.
PCEReturn ==
  /\ pc = "Populated"
  /\ call.cls = PatchClampExperiment
  /\ pc' = "Ready"
  /\ UNCHANGED <<registry, call, conds, fwd, baseArgs, inst, err>>

\* --------------------------------------------------------- ChannelModel
\* Lines 146-151 without the lower(): the argument compared as given.
NormalizeWithoutLower(modelType) ==
  IF modelType.isStr
  THEN IF modelType.s \in {AliasHomology, homologyEstimate} THEN <<homologyEstimate>>
       ELSE IF modelType.s \in {AliasPatchClamp, patchClamp} THEN <<patchClamp>>
       ELSE <<>>
  ELSE <<>>

\* Lines 146-151 with a final else that stores the argument as given.
NormalizeKeepingUnknown(modelType) ==
  IF modelType.isStr
  THEN LET m == Lower(modelType.s)
       IN IF m \in {AliasHomology, homologyEstimate} THEN <<homologyEstimate>>
          ELSE IF m \in {AliasPatchClamp, patchClamp} THEN <<patchClamp>>
          ELSE <<modelType.s>>
  ELSE <<>>

\* Lines 146-151: the values ChannelModel.__init__ sets modelType to, none or one.
NormalizedModelType(modelType) ==
  IF modelType.isStr
  THEN LET m == Lower(modelType.s)
       IN IF m \in {AliasHomology, homologyEstimate} THEN <<homologyEstimate>>
          ELSE IF m \in {AliasPatchClamp, patchClamp} THEN <<patchClamp>>
          ELSE <<>>
  ELSE <<>>

\* Lines 140-143 with ion declared without multiple=True.
ChannelModelDeclsSingleIon ==
  <<Decl("modelType", FALSE, "datatype"), Decl("ion", FALSE, "datatype"),
    Decl("gating", TRUE, "datatype"), Decl("conductance", FALSE, "datatype")>>

\* Lines 140-143.
ChannelModelDecls ==
  <<Decl("modelType", FALSE, "datatype"), Decl("ion", TRUE, "datatype"),
    Decl("gating", TRUE, "datatype"), Decl("conductance", FALSE, "datatype")>>

\* Line 156 with the other specialization's literal.
PatchClampModelTypeSwapped == AliasHomology

\* Line 156: the modelType PatchClampChannelModel passes up.
PatchClampModelType == AliasPatchClamp

\* Line 163: the modelType HomologyChannelModel passes up.
HomologyModelType == AliasHomology

\* The modelType parameter of ChannelModel.__init__ in the call under way.
ModelTypeParam ==
  CASE call.cls = PatchClampChannelModel -> StrArg(PatchClampModelType)
    [] call.cls = HomologyChannelModel -> StrArg(HomologyModelType)
    [] OTHER -> call.modelType

\* Lines 158 and 166: the relationship attribute a specialization adds.
SpecializationDecls(c) ==
  CASE c = PatchClampChannelModel -> <<Decl("modeled_from", FALSE, "object")>>
    [] c = HomologyChannelModel -> <<Decl("homolog", FALSE, "object")>>
    [] OTHER -> <<>>

\* The keywords of a call to a specialization: a modelType among them or not.
SpecializationKwargs ==
  LET rest == Kwargs(ModelKwargKeys \ {"modelType"}, KwargValues)
  IN rest \cup
     {[k \in DOMAIN f \cup {"modelType"} |-> IF k = "modelType" THEN m ELSE f[k]] :
        f \in rest, m \in CallerModelTypes}

\* ChannelModel(modelType, **kwargs) is called.
NewChannelModel ==
  /\ pc = "Idle"
  /\ \E modelType \in ModelTypeInputs,
        kwargs \in Kwargs(ModelKwargKeys \ {"modelType"}, KwargValues) :
       NewCall(ChannelModel, FALSE, kwargs, modelType)

\* PatchClampChannelModel(**kwargs) or HomologyChannelModel(**kwargs) is called.
NewSpecialization ==
  /\ pc = "Idle"
  /\ \E c \in Specializations, kwargs \in SpecializationKwargs :
       NewCall(c, FALSE, kwargs, NoArg)

\* Lines 156-157 and 163-164 (a keyword given twice is a TypeError), then line 139.
CMBaseInit ==
  /\ pc = "Uninitialized"
  /\ call.cls \in ChannelModelClasses
  /\ IF call.cls \in Specializations /\ "modelType" \in DOMAIN call.kwargs
     THEN Raise("TypeError") /\ UNCHANGED baseArgs
     ELSE /\ baseArgs' = <<[args |-> <<>>, kwargs |-> call.kwargs]>>
          /\ IF BaseAccepts(call.kwargs)
             THEN pc' = "BaseInitialized" /\ UNCHANGED err
             ELSE Raise("UnrecognizedArgument")
  /\ UNCHANGED <<registry, call, conds, fwd, inst>>

\* Lines 140-143.
CMDeclare ==
  /\ pc = "BaseInitialized"
  /\ call.cls \in ChannelModelClasses
  /\ LET r == DeclareAll(registry, inst, ChannelModel, ChannelModelDecls)
     IN /\ registry' = r.reg
        /\ inst' = r.obj
        /\ IF r.ok THEN pc' = "Declared" /\ UNCHANGED err
           ELSE Raise("SchemaConflict")
  /\ UNCHANGED <<call, conds, fwd, baseArgs>>

\* Lines 146-151.
CMNormalize ==
  /\ pc = "Declared"
  /\ call.cls \in ChannelModelClasses
  /\ LET v == NormalizedModelType(ModelTypeParam)
     IN inst' = IF v = <<>> THEN inst ELSE SetValue(inst, "modelType", v[1])
  /\ pc' = "Populated"
  /\ UNCHANGED <<registry, call, conds, fwd, baseArgs, err>>

\* Lines 158 and 165-166, and the return of __init__.
CMFinish ==
  /\ pc = "Populated"
  /\ call.cls \in ChannelModelClasses
  /\ LET r == DeclareAll(registry, inst, call.cls, SpecializationDecls(call.cls))
     IN /\ registry' = r.reg
        /\ inst' = r.obj
        /\ IF r.ok THEN pc' = "Ready" /\ UNCHANGED err
           ELSE Raise("SchemaConflict")
  /\ UNCHANGED <<call, conds, fwd, baseArgs>>

\* ------------------------------------------------- after construction
IonValues == {"Ca", "K"}

\* Attributes a caller sets on a constructed channel model.
SetAttributes == {"ion", "conductance"}

\* cm.ion(v) / cm.conductance(v) on a constructed instance.
SetAttribute ==
  /\ pc = "Ready"
  /\ inst.cls \in ChannelModelClasses
  /\ \E name \in SetAttributes, v \in IonValues :
       /\ Len(GetValues(inst, name)) < MaxSets
       /\ inst' = SetValue(inst, name, v)
  /\ UNCHANGED <<registry, pc, call, conds, fwd, baseArgs, err>>

\* The caller lets go of the instance it was returned, or of the failed call.
Release ==
  /\ pc \in {"Ready", "Failed"}
  /\ pc' = "Idle"
  /\ call' = NoCall
  /\ conds' = <<>>
  /\ fwd' = <<>>
  /\ baseArgs' = <<>>
  /\ inst' = NewInstance("none")
  /\ err' = "none"
  /\ UNCHANGED registry

\* ------------------------------------------------------- specification
\* The module has been imported: the class statements declare no property.
Init ==
  /\ registry = [c \in Classes |-> <<>>]
  /\ pc = "Idle"
  /\ call = NoCall
  /\ conds = <<>>
  /\ fwd = <<>>
  /\ baseArgs = <<>>
  /\ inst = NewInstance("none")
  /\ err = "none"

Next ==
  \/ NewPatchClampExperiment
  \/ PCEPartition
  \/ PCEBaseInit
  \/ PCEDeclare
  \/ PCEPopulate
  \/ PCEReturn
  \/ NewChannelModel
  \/ NewSpecialization
  \/ CMBaseInit
  \/ CMDeclare
  \/ CMNormalize
  \/ CMFinish
  \/ SetAttribute
  \/ Release

Spec == Init /\ [][Next]_vars

\* ------------------------------------------------------------ properties
IsCallOf(classes) == call.cls \in classes

\* The split of lines 83-84 as the claim describes it.
PartitionHolds ==
  /\ DOMAIN conds \cap DOMAIN fwd = {}
  /\ DOMAIN conds \cup DOMAIN fwd = DOMAIN call.kwargs
  /\ DOMAIN conds = DOMAIN call.kwargs \cap Range(conditions)
  /\ \A k \in DOMAIN conds : conds[k] = call.kwargs[k]
  /\ \A k \in DOMAIN fwd : fwd[k] = call.kwargs[k]

\* C1, as claimed: whatever keywords PatchClampExperiment is called with, once
\* the call has ended (returned or raised) they were split into conditions and
\* the rest, every condition's value was written to the attribute of its name,
\* and the rest, and only the rest, went to the base constructor.
C1_Original ==
  (IsCallOf({PatchClampExperiment}) /\ pc \in {"Ready", "Failed"}) =>
    /\ PartitionHolds
    /\ baseArgs = <<[args |-> <<call.reference>>, kwargs |-> fwd]>>
    /\ \A k \in DOMAIN conds :
         k \in DOMAIN inst.props /\ GetValues(inst, k) = <<call.kwargs[k]>>

\* C1, amended: the keywords are split into two disjoint parts whose union is
\* the input, the condition keys and the rest; the rest, unchanged and with no
\* condition key in it, is what the base constructor is called with, and no
\* forwarded key becomes an attribute; each condition's value is written to the
\* attribute of its name when the base constructor accepts the forwarded
\* keywords, and no value is written when it raises.
C1_Partition ==
  IsCallOf({PatchClampExperiment}) =>
    /\ pc # "Uninitialized" => PartitionHolds
    /\ pc \in {"Uninitialized", "Partitioning"} => baseArgs = <<>>
    /\ pc \notin {"Uninitialized", "Partitioning"} =>
         baseArgs = <<[args |-> <<call.reference>>, kwargs |-> fwd]>>
    /\ DOMAIN fwd \cap DOMAIN inst.props = {}
    /\ pc \in {"Populated", "Ready"} =>
         /\ Populated(inst) = DOMAIN conds
         /\ \A k \in DOMAIN conds : GetValues(inst, k) = <<call.kwargs[k]>>
    /\ pc = "Failed" => Populated(inst) = {}

\* C1's case: a constructed experiment that was given conditions and a keyword
\* for the base constructor.
C1_Witness ==
  /\ IsCallOf({PatchClampExperiment})
  /\ pc = "Ready"
  /\ DOMAIN conds = {"temperature", "cell"}
  /\ DOMAIN fwd = {"ident"}

\* C2: a constructed PatchClampExperiment has exactly the 21 distinct names of
\* `conditions` declared, whatever conditions it was given, and the attributes
\* holding a value are exactly the condition keys it was given.
C2_DeclaredConditions ==
  (IsCallOf({PatchClampExperiment}) /\ pc = "Ready") =>
    /\ DOMAIN inst.props = Range(conditions)
    /\ Cardinality(DOMAIN inst.props) = 21
    /\ Len(conditions) = 21
    /\ Populated(inst) = DOMAIN call.kwargs \cap Range(conditions)

\* C2's case: an experiment constructed with two of the conditions.
C2_Witness ==
  /\ IsCallOf({PatchClampExperiment})
  /\ pc = "Ready"
  /\ Populated(inst) = {"Ca_concentration", "type"}

\* The canonical value a specialization fixes.
FixedValue(c) == IF c = PatchClampChannelModel THEN patchClamp ELSE homologyEstimate

\* C3, as claimed: every construction of a specialization, a caller's own
\* modelType among the keywords or not, yields an instance whose modelType is
\* the specialization's canonical value (read for the keyword sets whose other
\* names the base constructor accepts).
C3_Original ==
  (IsCallOf(Specializations) /\ pc \in {"Ready", "Failed"}
     /\ DOMAIN call.kwargs \subseteq BaseRecognised \cup {"modelType"}) =>
    /\ pc = "Ready"
    /\ GetValues(inst, "modelType") = <<FixedValue(call.cls)>>

\* C3, amended: every construction of a specialization that completes yields an
\* instance whose modelType is the specialization's canonical value; a caller's
\* own modelType keyword is never accepted: the construction raises TypeError
\* before anything is declared, and yields no instance.
C3_FixedDiscriminant ==
  IsCallOf(Specializations) =>
    /\ pc = "Ready" => GetValues(inst, "modelType") = <<FixedValue(call.cls)>>
    /\ ("modelType" \in DOMAIN call.kwargs /\ pc # "Uninitialized") =>
         /\ pc = "Failed"
         /\ err = "TypeError"
         /\ DOMAIN inst.props = {}
    /\ err = "TypeError" => "modelType" \in DOMAIN call.kwargs

\* C3's case: a patch-clamp channel model constructed with a keyword of its own.
C3_Witness ==
  /\ IsCallOf({PatchClampChannelModel})
  /\ pc = "Ready"
  /\ DOMAIN call.kwargs = {"ident"}
  /\ GetValues(inst, "modelType") = <<patchClamp>>

\* C4, as claimed: a ChannelModel constructed with modelType equal to a
\* canonical value of ChannelModelType holds that value as its modelType.
C4_Original ==
  (IsCallOf({ChannelModel}) /\ pc = "Ready" /\ call.modelType.isStr
     /\ call.modelType.s \in {patchClamp, homologyEstimate}) =>
    GetValues(inst, "modelType") = <<call.modelType.s>>

\* A string that is no canonical value and, trimmed and lower-cased, no alias.
Unrecognised(s) ==
  /\ s \notin {patchClamp, homologyEstimate}
  /\ Lower(Strip(s)) \notin {AliasHomology, AliasPatchClamp}

\* C5, as claimed: a ChannelModel constructed with a modelType string that is
\* neither an alias nor a canonical value holds that string as its modelType.
C5_Original ==
  (IsCallOf({ChannelModel}) /\ pc = "Ready" /\ call.modelType.isStr
     /\ Unrecognised(call.modelType.s)) =>
    GetValues(inst, "modelType") = <<call.modelType.s>>

\* C5, amended: constructing a ChannelModel with a modelType string that is
\* neither an alias nor a canonical value never errors on that account (the
\* construction fails only when the base constructor rejects a keyword), and
\* the value is not stored: modelType is left without a value.
C5_UnknownDropped ==
  (IsCallOf({ChannelModel}) /\ call.modelType.isStr
     /\ Unrecognised(call.modelType.s)) =>
    /\ BaseAccepts(call.kwargs) => (pc # "Failed" /\ err = "none")
    /\ pc = "Failed" => err = "UnrecognizedArgument"
    /\ pc \in {"Populated", "Ready"} => GetValues(inst, "modelType") = <<>>

\* C5's case: a ChannelModel constructed with "unknown-value".
C5_Witness ==
  /\ IsCallOf({ChannelModel})
  /\ pc = "Ready"
  /\ call.modelType = StrArg(UnknownValue)
  /\ GetValues(inst, "modelType") = <<>>

CanonicalOf(alias) == IF alias = AliasHomology THEN homologyEstimate ELSE patchClamp

\* C6, as claimed: a modelType string that equals an alias once lower-cased and
\* trimmed of surrounding blanks is stored as the alias's canonical value.
C6_Original ==
  (IsCallOf({ChannelModel}) /\ pc = "Ready" /\ call.modelType.isStr) =>
    \A alias \in {AliasHomology, AliasPatchClamp} :
      Lower(Strip(call.modelType.s)) = alias =>
        GetValues(inst, "modelType") = <<CanonicalOf(alias)>>

\* C6, amended: the alias lookup is case-insensitive and does not trim: a
\* modelType string that equals an alias once lower-cased is stored as the
\* alias's canonical value, and one that equals an alias only once trimmed too
\* is not recognised and leaves modelType without a value.
C6_CaseInsensitive ==
  (IsCallOf({ChannelModel}) /\ pc = "Ready" /\ call.modelType.isStr) =>
    \A alias \in {AliasHomology, AliasPatchClamp} :
      /\ Lower(call.modelType.s) = alias =>
           GetValues(inst, "modelType") = <<CanonicalOf(alias)>>
      /\ (Lower(Strip(call.modelType.s)) = alias /\ Lower(call.modelType.s) # alias) =>
           GetValues(inst, "modelType") = <<>>

\* C6's case: a ChannelModel constructed with "Homology".
C6_Witness ==
  /\ IsCallOf({ChannelModel})
  /\ pc = "Ready"
  /\ call.modelType.isStr
  /\ call.modelType.s # AliasHomology
  /\ Lower(call.modelType.s) = AliasHomology
  /\ GetValues(inst, "modelType") = <<homologyEstimate>>

\* The names the declare calls of the construction under way are about to make
\* through class c (lines 89-90 for PatchClampExperiment, 140-143 for ChannelModel).
AboutToDeclare(c) ==
  IF pc = "BaseInitialized" /\ c = PatchClampExperiment /\ IsCallOf({PatchClampExperiment})
  THEN Range(conditions)
  ELSE IF pc = "BaseInitialized" /\ c = ChannelModel /\ IsCallOf(ChannelModelClasses)
  THEN {d.name : d \in Range(ChannelModelDecls)}
  ELSE {}

\* C7, as claimed: through every sequence of constructions no class's inherited
\* schema holds a name twice, and every declare of a name the owner class's
\* inherited schema already holds is rejected with SchemaConflict and leaves
\* the schema as it was.
C7_Original ==
  [][/\ \A c \in Classes : NoDuplicates(InheritedSchema(registry', c))
     /\ \A c \in Classes :
          AboutToDeclare(c) \cap Range(InheritedSchema(registry, c)) # {} =>
            (err' = "SchemaConflict" /\ registry' = registry)]_vars

\* C8, as claimed: the schema registry is written at class-definition time
\* only: no step of any construction changes any class's entry.
C8_Original == [][registry' = registry]_vars

\* C9: ion is multi-valued: on a constructed channel model every change of ion
\* adds one value after those it held, none is overwritten, so two sets leave
\* the two values in the order set; modelType and conductance hold one value.
C9_IonAccumulates ==
  [][(pc = "Ready" /\ pc' = "Ready" /\ inst.cls \in ChannelModelClasses) =>
       /\ GetValues(inst', "ion") # GetValues(inst, "ion") =>
            /\ Len(GetValues(inst', "ion")) = Len(GetValues(inst, "ion")) + 1
            /\ SubSeq(GetValues(inst', "ion"), 1, Len(GetValues(inst, "ion")))
                 = GetValues(inst, "ion")
       /\ Len(GetValues(inst', "conductance")) <= 1
       /\ Len(GetValues(inst', "modelType")) <= 1]_vars

\* C9's case: ion set to "Ca", then to "K".
C9_Witness ==
  /\ pc = "Ready"
  /\ inst.cls \in ChannelModelClasses
  /\ GetValues(inst, "ion") = <<"Ca", "K">>
  /\ Len(GetValues(inst, "conductance")) = 1

\* The order of PatchClampExperiment.__init__, and what ends a call.
PCEOrder ==
  {<<"Uninitialized", "Partitioning">>, <<"Partitioning", "BaseInitialized">>,
   <<"Partitioning", "Failed">>, <<"BaseInitialized", "Declared">>,
   <<"Declared", "Populated">>, <<"Populated", "Ready">>,
   <<"Ready", "Idle">>, <<"Failed", "Idle">>}

C10_Invariant ==
  IsCallOf({PatchClampExperiment}) =>
    /\ pc \in {"Uninitialized", "Partitioning"} =>
         (DOMAIN inst.props = {} /\ baseArgs = <<>>)
    /\ pc \in {"BaseInitialized", "Declared", "Populated", "Ready"} =>
         (baseArgs # <<>> /\ BaseAccepts(fwd) /\ err = "none")
    /\ pc \in {"BaseInitialized", "Declared"} => Populated(inst) = {}
    /\ pc = "Failed" =>
         /\ err = "UnrecognizedArgument"
         /\ ~BaseAccepts(fwd)
         /\ DOMAIN inst.props = {}

\* C10: the construction of a PatchClampExperiment goes through Uninitialized,
\* Partitioning, Base-Initialized, the declaration of the conditions, Populated
\* and Ready in that order and never back; nothing is declared or populated
\* before the base constructor has returned; when the base constructor raises
\* UnrecognizedArgument the call ends with that error and nothing is declared,
\* populated or returned.
C10_Linear ==
  /\ []C10_Invariant
  /\ [][IsCallOf({PatchClampExperiment}) => <<pc, pc'>> \in PCEOrder]_vars

\* C10's case: the base constructor refused a keyword of a call that also
\* carried conditions.
C10_Witness ==
  /\ IsCallOf({PatchClampExperiment})
  /\ pc = "Failed"
  /\ err = "UnrecognizedArgument"
  /\ DOMAIN conds = {"temperature", "cell"}
  /\ DOMAIN fwd = {"foo"}

====
